---- MODULE Spec2Model ----
(***************************************************************************)
(* Model of examples/python-app/app.py: a Flask service with five routes,  *)
(* a 404 and a 500 handler, an after_request hook that adds security       *)
(* headers, a before_request hook that logs, and a SIGTERM/SIGINT handler  *)
(* that sets is_shutting_down, sleeps and exits.                           *)
(*                                                                         *)
(* Threads of control:                                                     *)
(*   - the main thread: module start-up, app.run (the accept loop), and    *)
(*     every invocation of graceful_shutdown (Python runs signal handlers  *)
(*     in the main thread, between bytecodes, and re-entrantly);           *)
(*   - one thread per accepted request (Flask's app.run is threaded).      *)
(***************************************************************************)
EXTENDS Integers, Sequences, FiniteSets, TLC

\* ------------------------------------------------------------------ bounds
MaxThreads == 1      \* request threads alive at the same time
MaxSignals == 2      \* termination signals delivered over the lifetime
MaxClock == 1        \* largest wall-clock reading
StartClock == 0      \* wall-clock reading when the module is loaded

\* --------------------------------------------------------- program constants
Grace == 2           \* time.sleep(2), in seconds

Threads == 1..MaxThreads
Routes == {"/", "/health", "/ready", "/metrics", "/info"}
Paths == Routes \cup {"/does-not-exist"}
\* the views that call into psutil and os
Raising == {"/metrics", "/info"}

SecurityHeaders ==
  { <<"X-Content-Type-Options", "nosniff">>,
    <<"X-Frame-Options", "DENY">>,
    <<"X-XSS-Protection", "1; mode=block">>,
    <<"Strict-Transport-Security", "max-age=31536000; includeSubDomains">> }

VARIABLES
  debug,             \* CONFIG['debug']
  start_time,        \* module global start_time
  is_shutting_down,  \* module global is_shutting_down
  clock,             \* what datetime.now() returns (wall clock)
  mainPc,            \* main thread: "startup", "serving", "except", "exited"
  exitCode,          \* process exit status, NoExit while alive
  sigStack,          \* nested graceful_shutdown frames, innermost last
  slept,             \* seconds the running time.sleep(2) call has slept
  signals,           \* termination signals delivered so far
  flagWrites,        \* executions of `is_shutting_down = True`
  failedStartup,     \* app.run raised an exception
  threads,           \* request threads
  lastUptime,        \* uptime of the last /health call
  log                \* kinds of lines written by logger

vars == <<debug, start_time, is_shutting_down, clock, mainPc, exitCode,
          sigStack, slept, signals, flagWrites, failedStartup, threads,
          lastUptime, log>>

NoExit == 0 - 1
NoUptime == 0 - 100

\* ---------------------------------------------------------------- responses
NoBody == [kind |-> "none", error |-> "", path |-> "", ready |-> FALSE,
           uptime |-> 0, detail |-> ""]

Response(status, ctype, body) ==
  [status |-> status, ctype |-> ctype, body |-> body, headers |-> {}]

NoResponse == Response(0, "", NoBody)

jsonify(body) == Response(200, "application/json", body)

WithStatus(resp, status) == [resp EXCEPT !.status = status]

add_headers_without_hsts(response) ==
  [response EXCEPT !.headers = response.headers \cup
     { h \in SecurityHeaders : h[1] # "Strict-Transport-Security" }]

\* @app.after_request
add_security_headers(response) ==
  [response EXCEPT !.headers = response.headers \cup SecurityHeaders]

\* @app.before_request
log_request(lines) == lines \cup {"request"}

index_ignores_flag(flag) ==
  jsonify([NoBody EXCEPT !.kind = "greeting"])

\* @app.route('/')
index(flag) ==
  IF flag
    THEN WithStatus(jsonify([NoBody EXCEPT !.kind = "error",
                                           !.error = "Service shutting down"]), 503)
    ELSE jsonify([NoBody EXCEPT !.kind = "greeting"])

\* @app.route('/health')
health(now, st) ==
  jsonify([NoBody EXCEPT !.kind = "healthy", !.uptime = now - st])

\* @app.route('/ready'), line 89: ready = not is_shutting_down
ready_value(flag) == ~flag

status_code_rereads_flag(rdy) == IF ~is_shutting_down THEN 200 ELSE 503

\* @app.route('/ready'), line 90: status_code = 200 if ready else 503
status_code(rdy) == IF rdy THEN 200 ELSE 503

\* @app.route('/ready'), lines 92-95
ready(rdy) ==
  WithStatus(jsonify([NoBody EXCEPT !.kind = "ready", !.ready = rdy]),
             status_code(rdy))

\* @app.route('/metrics'): the six gauges as text; their values are not kept
metrics ==
  Response(200, "text/plain; charset=utf-8", [NoBody EXCEPT !.kind = "metrics"])

\* @app.route('/info')
info == jsonify([NoBody EXCEPT !.kind = "info"])

not_found_without_path(path) ==
  WithStatus(jsonify([NoBody EXCEPT !.kind = "error", !.error = "Not Found"]),
             404)

\* @app.errorhandler(404)
not_found(path) ==
  WithStatus(jsonify([NoBody EXCEPT !.kind = "error", !.error = "Not Found",
                                    !.path = path]), 404)

internal_error_echoes_detail(detail) ==
  WithStatus(jsonify([NoBody EXCEPT !.kind = "error",
                                    !.error = "Internal Server Error",
                                    !.detail = detail]), 500)

\* @app.errorhandler(500): the argument is logged, not returned
internal_error(detail) ==
  WithStatus(jsonify([NoBody EXCEPT !.kind = "error",
                                    !.error = "Internal Server Error"]), 500)

\* app.run(debug=True): the exception is re-raised past the 500 handler and
\* the after_request hooks, and the debugger renders it to the client.
debugger_page(detail) ==
  Response(500, "text/html; charset=utf-8",
           [NoBody EXCEPT !.kind = "traceback", !.detail = detail])

\* ------------------------------------------------------------------ threads
\* pc: "idle", "accepted", "ready2", "sent"
\* flagRead: is_shutting_down when the view function ran
\* rdy: the local `ready` of the /ready view
\* raised: the view function raised
IdleThread == [pc |-> "idle", path |-> "", flagRead |-> FALSE, rdy |-> FALSE, raised |-> FALSE,
               resp |-> NoResponse]

Alive == mainPc # "exited"
InHandler == Alive /\ sigStack # <<>>
Top == sigStack[Len(sigStack)]

Init ==
  /\ debug \in BOOLEAN
  /\ start_time = StartClock
  /\ is_shutting_down = FALSE
  /\ clock = StartClock
  /\ mainPc = "startup"
  /\ exitCode = NoExit
  /\ sigStack = <<>>
  /\ slept = 0
  /\ signals = 0
  /\ flagWrites = 0
  /\ failedStartup = FALSE
  /\ threads = [t \in Threads |-> IdleThread]
  /\ lastUptime = NoUptime
  /\ log = {"starting"}

\* ------------------------------------------------------------- wall clock
\* datetime.now() is the local wall clock: it advances, and it is set back by
\* a clock adjustment or the end of daylight saving time.
Tick ==
  /\ Alive
  /\ clock < MaxClock
  /\ clock' = clock + 1
  /\ UNCHANGED <<debug, start_time, is_shutting_down, mainPc, exitCode,
                 sigStack, slept, signals, flagWrites, failedStartup,
                 threads, lastUptime, log>>

ClockSetBack ==
  /\ Alive
  /\ \E c \in 0..(clock - 1) : clock' = c
  /\ UNCHANGED <<debug, start_time, is_shutting_down, mainPc, exitCode,
                 sigStack, slept, signals, flagWrites, failedStartup,
                 threads, lastUptime, log>>

\* ------------------------------------------------------------ main thread
\* app.run binds and enters the accept loop.
StartServer ==
  /\ mainPc = "startup"
  /\ ~InHandler
  /\ mainPc' = "serving"
  /\ UNCHANGED <<debug, start_time, is_shutting_down, clock, exitCode,
                 sigStack, slept, signals, flagWrites, failedStartup,
                 threads, lastUptime, log>>

\* app.run raises (bind or listen fails); control reaches the except clause.
StartFails ==
  /\ mainPc = "startup"
  /\ ~InHandler
  /\ mainPc' = "except"
  /\ failedStartup' = TRUE
  /\ UNCHANGED <<debug, start_time, is_shutting_down, clock, exitCode,
                 sigStack, slept, signals, flagWrites, threads,
                 lastUptime, log>>

\* except Exception as e: logger.error(...); sys.exit(1)
ExitFailure ==
  /\ mainPc = "except"
  /\ ~InHandler
  /\ log' = log \cup {"startup_failed"}
  /\ mainPc' = "exited"
  /\ exitCode' = 1
  /\ threads' = [t \in Threads |-> IdleThread]
  /\ UNCHANGED <<debug, start_time, is_shutting_down, clock, sigStack, slept,
                 signals, flagWrites, failedStartup, lastUptime>>

\* ---------------------------------------------------------- signal handler
\* SIGTERM or SIGINT is delivered: graceful_shutdown is entered in the main
\* thread, on top of whatever the main thread was doing (line 177). A frame
\* it interrupts never resumes, because the innermost frame ends the process,
\* so an interrupted time.sleep keeps no timer.
Signal ==
  /\ Alive
  /\ signals < MaxSignals
  /\ signals' = signals + 1
  /\ sigStack' = Append(sigStack, "set")
  /\ slept' = 0
  /\ log' = log \cup {"received_signal"}
  /\ UNCHANGED <<debug, start_time, is_shutting_down, clock, mainPc, exitCode,
                 flagWrites, failedStartup, threads, lastUptime>>

SetFlagToggles ==
  /\ InHandler
  /\ Top = "set"
  /\ is_shutting_down' = ~is_shutting_down
  /\ flagWrites' = flagWrites + 1
  /\ sigStack' = [sigStack EXCEPT ![Len(sigStack)] = "sleep"]
  /\ slept' = 0
  /\ log' = log \cup {"waiting"}
  /\ UNCHANGED <<debug, start_time, clock, mainPc, exitCode, signals,
                 failedStartup, threads, lastUptime>>

\* lines 178-183: is_shutting_down = True, log, enter time.sleep(2)
SetFlag ==
  /\ InHandler
  /\ Top = "set"
  /\ is_shutting_down' = TRUE
  /\ flagWrites' = flagWrites + 1
  /\ sigStack' = [sigStack EXCEPT ![Len(sigStack)] = "sleep"]
  /\ slept' = 0
  /\ log' = log \cup {"waiting"}
  /\ UNCHANGED <<debug, start_time, clock, mainPc, exitCode, signals,
                 failedStartup, threads, lastUptime>>

\* one second of time.sleep(2) passes in the innermost frame
SleepTick ==
  /\ InHandler
  /\ Top = "sleep"
  /\ slept < Grace
  /\ slept' = slept + 1
  /\ UNCHANGED <<debug, start_time, is_shutting_down, clock, mainPc, exitCode,
                 sigStack, signals, flagWrites, failedStartup, threads, lastUptime, log>>

SysExitWithoutSleep ==
  /\ InHandler
  /\ Top = "sleep"
  /\ log' = log \cup {"shutdown_complete"}
  /\ mainPc' = "exited"
  /\ exitCode' = 0
  /\ threads' = [t \in Threads |-> IdleThread]
  /\ UNCHANGED <<debug, start_time, is_shutting_down, clock, sigStack, slept,
                 signals, flagWrites, failedStartup, lastUptime>>

\* lines 185-186: log, sys.exit(0). SystemExit unwinds every frame of the main
\* thread (except Exception does not catch it); request threads are daemons.
SysExit ==
  /\ InHandler
  /\ Top = "sleep"
  /\ slept = Grace
  /\ log' = log \cup {"shutdown_complete"}
  /\ mainPc' = "exited"
  /\ exitCode' = 0
  /\ threads' = [t \in Threads |-> IdleThread]
  /\ UNCHANGED <<debug, start_time, is_shutting_down, clock, sigStack, slept,
                 signals, flagWrites, failedStartup, lastUptime>>

\* --------------------------------------------------------- request threads
\* The accept loop of app.run hands a connection to a new thread (the free
\* slot of lowest index stands for it). The loop runs in the main thread, so
\* it is stalled while graceful_shutdown runs.
Accept(t, p) ==
  /\ mainPc = "serving"
  /\ ~InHandler
  /\ threads[t].pc = "idle"
  /\ \A u \in Threads : u < t => threads[u].pc # "idle"
  /\ threads' = [threads EXCEPT ![t] = [IdleThread EXCEPT !.pc = "accepted",
                                                          !.path = p]]
  /\ UNCHANGED <<debug, start_time, is_shutting_down, clock, mainPc, exitCode,
                 sigStack, slept, signals, flagWrites, failedStartup,
                 lastUptime, log>>

\* The request thread runs: the before_request hook logs, the view function
\* of the matched route runs (for /ready: line 89 only), or the 404 handler
\* when no route matches; the after_request hook then adds the headers and the
\* response is written to the client.
RunHandler(t) ==
  /\ Alive
  /\ threads[t].pc = "accepted"
  /\ log' = log_request(log)
  /\ LET p == threads[t].path IN
       /\ threads' =
            [threads EXCEPT
               ![t].pc = IF p = "/ready" THEN "ready2" ELSE "sent",
               ![t].flagRead = is_shutting_down,
               ![t].rdy = IF p = "/ready" THEN ready_value(is_shutting_down)
                                          ELSE @,
               ![t].resp =
                 IF p = "/ready" THEN @
                 ELSE add_security_headers(
                        CASE p = "/" -> index(is_shutting_down)
                          [] p = "/health" -> health(clock, start_time)
                          [] p = "/metrics" -> metrics
                          [] p = "/info" -> info
                          [] OTHER -> not_found(p))]
       /\ lastUptime' = IF p = "/health" THEN clock - start_time ELSE lastUptime
  /\ UNCHANGED <<debug, start_time, is_shutting_down, clock, mainPc, exitCode,
                 sigStack, slept, signals, flagWrites, failedStartup>>

ReadyRespondClearsFlag(t) ==
  /\ Alive
  /\ threads[t].pc = "ready2"
  /\ threads' = [threads EXCEPT
                   ![t].pc = "sent",
                   ![t].resp = add_security_headers(ready(threads[t].rdy))]
  /\ is_shutting_down' = FALSE
  /\ UNCHANGED <<debug, start_time, clock, mainPc, exitCode,
                 sigStack, slept, signals, flagWrites, failedStartup,
                 lastUptime, log>>

\* /ready, lines 90-95: status and body from the local `ready`, then the
\* after_request hook
ReadyRespond(t) ==
  /\ Alive
  /\ threads[t].pc = "ready2"
  /\ threads' = [threads EXCEPT
                   ![t].pc = "sent",
                   ![t].resp = add_security_headers(ready(threads[t].rdy))]
  /\ UNCHANGED <<debug, start_time, is_shutting_down, clock, mainPc, exitCode,
                 sigStack, slept, signals, flagWrites, failedStartup,
                 lastUptime, log>>

\* The request thread runs and a view function that queries the system raises. With debug off Flask logs the
\* exception, calls the 500 handler and runs the after_request hook; with
\* debug on it re-raises, and the response is the debugger's page, which no
\* after_request hook sees.
HandlerRaise(t) ==
  /\ Alive
  /\ threads[t].pc = "accepted"
  /\ threads[t].path \in Raising
  /\ IF debug
       THEN /\ threads' = [threads EXCEPT ![t].pc = "sent",
                                          ![t].raised = TRUE,
                                          ![t].resp = debugger_page("exc")]
            /\ log' = log_request(log)
       ELSE /\ threads' = [threads EXCEPT
                              ![t].pc = "sent",
                              ![t].raised = TRUE,
                              ![t].resp = add_security_headers(internal_error("exc"))]
            /\ log' = log_request(log) \cup {"internal_error:exc"}
  /\ UNCHANGED <<debug, start_time, is_shutting_down, clock, mainPc, exitCode,
                 sigStack, slept, signals, flagWrites, failedStartup,
                 lastUptime>>

\* The request thread ends.
Close(t) ==
  /\ Alive
  /\ threads[t].pc = "sent"
  /\ threads' = [threads EXCEPT ![t] = IdleThread]
  /\ UNCHANGED <<debug, start_time, is_shutting_down, clock, mainPc, exitCode,
                 sigStack, slept, signals, flagWrites, failedStartup,
                 lastUptime, log>>

\* ------------------------------------------------------------ specifications
MainStep == SetFlag \/ SleepTick \/ SysExit

Next ==
  \/ Tick
  \/ ClockSetBack
  \/ StartServer
  \/ StartFails
  \/ ExitFailure
  \/ Signal
  \/ SetFlag
  \/ SleepTick
  \/ SysExit
  \/ \E t \in Threads, p \in Paths : Accept(t, p)
  \/ \E t \in Threads : RunHandler(t)
  \/ \E t \in Threads : ReadyRespond(t)
  \/ \E t \in Threads : Close(t)

NextFault ==
  \/ Next
  \/ \E t \in Threads : HandlerRaise(t)

Spec == Init /\ [][Next]_vars

SpecFault == Init /\ [][NextFault]_vars

\* The interpreter runs the main thread: a handler that has been entered
\* keeps executing, and time.sleep returns.
SpecLive == Init /\ [][Next]_vars /\ WF_vars(MainStep)

\* ------------------------------------------------------------------ claims
Sent(t) == threads[t].pc = "sent"
Status(t) == threads[t].resp.status
Body(t) == threads[t].resp.body
Path(t) == threads[t].path
Draining == is_shutting_down /\ Alive
Terminated == mainPc = "exited"

\* C1: a request whose view runs after the shutdown flag is set is answered
\* 503 on / and /ready and 200 on /health, /metrics and /info.
C1_DrainingStatuses ==
  \A t \in Threads :
    (Sent(t) /\ threads[t].flagRead) =>
      /\ Path(t) \in {"/", "/ready"} => Status(t) = 503
      /\ Path(t) \in {"/health", "/metrics", "/info"} => Status(t) = 200

C1_Witness ==
  \E t \in Threads :
    Sent(t) /\ threads[t].flagRead /\ Path(t) = "/" /\ Status(t) = 503

\* C2: every /ready response has ready = NOT (the flag as the view read it),
\* status 200 when ready is true and 503 when it is false.
C2_ReadyBodyMatchesStatus ==
  \A t \in Threads :
    (Path(t) = "/ready" /\ Sent(t)) =>
      /\ Body(t).kind = "ready"
      /\ Body(t).ready = ~threads[t].flagRead
      /\ Status(t) = IF Body(t).ready THEN 200 ELSE 503

\* the flag was set between the view's read and its response
C2_Witness ==
  \E t \in Threads :
    /\ Path(t) = "/ready" /\ Sent(t)
    /\ Body(t).ready /\ Status(t) = 200 /\ is_shutting_down

\* C3: once a termination signal has entered the handler, the process always
\* terminates with exit code 0, and it exits 0 only with the flag set and
\* after the exiting handler has slept the whole grace period; a draining
\* process is inside the handler, so draining always leads to termination
\* with exit code 0.
C3_DrainThenExitZero ==
  /\ [][ /\ (exitCode = NoExit /\ exitCode' = 0) =>
              (is_shutting_down /\ slept = Grace)
         /\ (Draining => InHandler)'
         /\ (Terminated /\ is_shutting_down => exitCode = 0)' ]_vars
  /\ (InHandler ~> (Terminated /\ exitCode = 0))

C3_Witness ==
  Terminated /\ exitCode = 0 /\ is_shutting_down /\ signals = MaxSignals

\* C4 as claimed: the flag is false until its single write, and is written at
\* most once over the process lifetime.
C4_WrittenAtMostOnce ==
  /\ flagWrites <= 1
  /\ is_shutting_down <=> flagWrites = 1

\* C4 as amended: the flag starts false, becomes true at the first write of
\* the signal handler and never returns to false; the handler writes it once
\* per invocation, so it is written at most once per signal delivered.
C4_SetOnceNeverCleared ==
  /\ [](is_shutting_down <=> flagWrites >= 1)
  /\ [](flagWrites <= signals)
  /\ [][is_shutting_down => is_shutting_down']_vars
  /\ [][flagWrites' # flagWrites =>
          (InHandler /\ Top = "set" /\ flagWrites' = flagWrites + 1)]_vars

C4_Witness == is_shutting_down /\ flagWrites = 2

C6_UptimeMonotone ==
  [][ /\ start_time' = start_time
      /\ \A t \in Threads :
           (threads'[t].path = "/health" /\ threads'[t].pc = "sent") =>
             /\ threads'[t].resp.status = 200
             /\ threads'[t].resp.body.kind = "healthy"
             /\ threads'[t].resp.body.uptime >= 0
      /\ (lastUptime # NoUptime) => lastUptime' >= lastUptime ]_vars

\* C7: a path that matches no route is answered 404 with error "Not Found"
\* and the requested path, whether or not the flag is set.
C7_UnknownPathIs404 ==
  \A t \in Threads :
    (Sent(t) /\ Path(t) \notin Routes) =>
      /\ Status(t) = 404
      /\ Body(t).error = "Not Found"
      /\ Body(t).path = Path(t)

C7_Witness ==
  \E t \in Threads :
    Sent(t) /\ Path(t) \notin Routes /\ Status(t) = 404 /\ threads[t].flagRead

Generic500(t) ==
  /\ Status(t) = 500
  /\ Body(t) = [NoBody EXCEPT !.kind = "error", !.error = "Internal Server Error"]
  /\ "internal_error:exc" \in log

RaiseStep == \E t \in Threads : ~threads[t].raised /\ threads'[t].raised

\* C8 as claimed: a view that raises is answered 500 with the generic body and
\* no detail of the error, which is logged; the process state is unchanged.
C8_GenericBodyAlways ==
  \A t \in Threads : threads[t].raised => Generic500(t)

\* C8 as amended: with debug off, a view that raises is answered 500 with the
\* generic body and no detail of the error, which is logged; in either mode
\* the raise leaves the flag, start_time and the main thread as they were.
C8_GenericBodyUnlessDebug ==
  /\ [](\A t \in Threads : (threads[t].raised /\ ~debug) => Generic500(t))
  /\ [][RaiseStep => UNCHANGED <<is_shutting_down, start_time, mainPc,
                                    exitCode, sigStack>>]_vars

\* a request served normally after an earlier one raised
C8_Witness ==
  /\ ~debug
  /\ "internal_error:exc" \in log
  /\ \E t \in Threads : Sent(t) /\ ~threads[t].raised /\ Status(t) = 200

\* C9: a start-up failure is logged and ends the process with code 1; code 1
\* only on that path, code 0 only on the signal path.
C9_ExitCodes ==
  /\ (failedStartup /\ Terminated) =>
        (exitCode = 1 /\ "startup_failed" \in log)
  /\ exitCode = 1 => failedStartup
  /\ exitCode = 0 => signals > 0

ThreadStep == threads' # threads /\ mainPc' = mainPc

\* C10: no step of a request thread changes the flag or start_time; the flag
\* changes only in the signal handler's assignment.
C10_HandlersWriteNothing ==
  /\ [][ThreadStep => UNCHANGED <<is_shutting_down, start_time>>]_vars
  /\ [][is_shutting_down' # is_shutting_down => (InHandler /\ Top = "set")]_vars
  /\ [][start_time' = start_time]_vars

C10_Witness ==
  \E t \in Threads : Sent(t) /\ threads[t].raised /\ is_shutting_down

====
